---- MODULE Spec2Model ----
(***************************************************************************)
(* Model of image_terrain_gen: the banded terrain gradient                 *)
(* (src/src/gradient.rs) and the partitioned parallel generator            *)
(* (src/src/generator.rs).                                                  *)
(*                                                                         *)
(* f64 heights are fixed-point integers in units of 1e-8 (One is 1.0), so   *)
(* every literal of the source (band limits, band centers, the clamp        *)
(* bounds 0.0000001 and 0.99999999) is represented exactly.  TLC integers   *)
(* are 32 bits wide, so products of two heights go through MulDiv.          *)
(***************************************************************************)
EXTENDS Integers, Sequences, FiniteSets, TLC

\* 1.0 in fixed-point units.
One == 10^8

Abs(a) == IF a < 0 THEN 0 - a ELSE a

Min(a, b) == IF a < b THEN a ELSE b

\* <<q, r>> with c * n = q * d + r and 0 <= r < d, for c >= 0, 0 <= n, 0 < d < 2^29,
\* by double-and-add so that no intermediate value leaves 32 bits.
RECURSIVE MulDivMod(_, _, _)
MulDivMod(c, n, d) ==
    IF c = 0 THEN <<0, 0>>
    ELSE LET p  == MulDivMod(c \div 2, n, d)
             q2 == 2 * p[1] + ((2 * p[2]) \div d)
             r2 == (2 * p[2]) % d
             nq == n \div d
             nr == n % d
         IN  IF c % 2 = 1
             THEN <<q2 + nq + ((r2 + nr) \div d), (r2 + nr) % d>>
             ELSE <<q2, r2>>

\* floor(a * n / d) for integers a and n, d > 0.
MulDiv(a, n, d) ==
    LET p == MulDivMod(Abs(a), Abs(n), d)
    IN  IF (a >= 0) = (n >= 0) THEN p[1]
        ELSE 0 - (p[1] + (IF p[2] > 0 THEN 1 ELSE 0))

(***************************************************************************)
(* gradient.rs: TerrainKind                                                *)
(***************************************************************************)
Undefined == -1
DeepWater == 0
Water == 1
ShallowWater == 2
Shore == 3
FlatLand == 4
HighLand == 5
Mountains == 6
MountainTop == 7

\* The 8 defined kinds, and all 9 variants of the enum.
Kinds == DeepWater..MountainTop
AllKinds == Undefined..MountainTop

before(kind) ==
    CASE kind = Undefined    -> Undefined
      [] kind = DeepWater    -> DeepWater
      [] kind = Water        -> DeepWater
      [] kind = ShallowWater -> Water
      [] kind = Shore        -> Water
      [] kind = FlatLand     -> Shore
      [] kind = HighLand     -> FlatLand
      [] kind = Mountains    -> HighLand
      [] kind = MountainTop  -> Mountains

after(kind) ==
    CASE kind = Undefined    -> Undefined
      [] kind = DeepWater    -> Water
      [] kind = Water        -> ShallowWater
      [] kind = ShallowWater -> Shore
      [] kind = Shore        -> FlatLand
      [] kind = FlatLand     -> HighLand
      [] kind = HighLand     -> Mountains
      [] kind = Mountains    -> MountainTop
      [] kind = MountainTop  -> MountainTop

\* impl From<usize> for TerrainKind
KindFrom(value) == IF value \in 0..7 THEN value ELSE Undefined

(***************************************************************************)
(* gradient.rs: Gradient::default, calc_centers.  Vectors indexed by kind  *)
(* in the source are sequences indexed by kind + 1 here.                    *)
(***************************************************************************)
terrain_limits ==
    << <<0, 40000000>>,         \* DeepWater    [0.0, 0.4]
       <<40000000, 60000000>>,  \* Water        [0.4, 0.6]
       <<60000000, 63000000>>,  \* ShallowWater [0.6, 0.63]
       <<63000000, 64000000>>,  \* Shore        [0.63, 0.64]
       <<64000000, 80000000>>,  \* FlatLand     [0.64, 0.8]
       <<80000000, 90000000>>,  \* HighLand     [0.8, 0.9]
       <<90000000, 98000000>>,  \* Mountains    [0.9, 0.98]
       <<98000000, One>> >>     \* MountainTop  [0.98, 1.0]

colors ==
    << <<0, 64, 106>>,
       <<0, 117, 119>>,
       <<180, 240, 251>>,
       <<194, 178, 128>>,
       <<72, 111, 56>>,
       <<111, 130, 70>>,
       <<79, 79, 79>>,
       <<253, 254, 255>> >>

calc_centers(limits) ==
    [i \in 1..(MountainTop + 1) |-> (limits[i][1] + limits[i][2]) \div 2]

terrain_centers == calc_centers(terrain_limits)

\* Result of a call that may panic.
Panic == [ok |-> FALSE]
Ok(v) == [ok |-> TRUE, val |-> v]

\* iter().position(|[min, max]| height > min && height < max): the first
\* band strictly containing height; panics when there is none.
get_terrain_kind(height) ==
    LET hits == {i \in 1..Len(terrain_limits) :
                    height > terrain_limits[i][1] /\ height < terrain_limits[i][2]}
    IN  IF hits # {}
        THEN Ok(KindFrom((CHOOSE i \in hits : \A j \in hits : i <= j) - 1))
        ELSE Panic

\* (one * factor + other * (1 - factor)) as u8 on one channel, with
\* factor = num / den.  den = 0 makes factor 0.0/0.0 = NaN, and a NaN cast
\* to u8 is 0.  Otherwise 0 <= factor <= 1 and the cast truncates.
lerp_channel(one, num, den, other) ==
    IF den = 0 THEN 0
    ELSE other + MulDiv(one - other, num, den)

_lerp_colors(one, num, den, other) ==
    [c \in 1..3 |-> lerp_channel(one[c], num, den, other[c])]

\* lerp_color; panics where get_terrain_kind(height).unwrap() does.
lerp_color(height) ==
    LET res == get_terrain_kind(height)
    IN  IF ~res.ok THEN Panic
        ELSE
        LET kind          == res.val
            kind_before   == before(kind)
            kind_after    == after(kind)
            color         == colors[kind + 1]
            color_before  == colors[kind_before + 1]
            color_after   == colors[kind_after + 1]
            dist_self     == height - terrain_centers[kind + 1]
            dist_self_abs == Abs(dist_self)
            dist_before   == Abs(height - terrain_centers[kind_before + 1])
            dist_after    == Abs(height - terrain_centers[kind_after + 1])
        IN  IF dist_self < 0
            THEN Ok(_lerp_colors(color_before, dist_self_abs,
                                 dist_before + dist_self_abs, color))
            ELSE Ok(_lerp_colors(color_after, dist_self_abs,
                                 dist_after + dist_self_abs, color))

\* get_color
get_color(height) ==
    LET res == get_terrain_kind(height)
    IN  IF res.ok THEN Ok(colors[res.val + 1]) ELSE Panic

(***************************************************************************)
(* generator.rs: the per-pixel height of job (lines 74-97)                 *)
(***************************************************************************)
\* rand::thread_rng().gen_range(0..1000) draws an integer below JitterRange;
\* noise_value is the draw divided by JitterDivisor.
JitterRange == 1000
JitterDivisor == 100000

\* value.clamp(0.0000001, 0.99999999)
ClampMin == 10
ClampMax == 99999999

\* The draws of the jitter the model explores: the least and the greatest.
JitterDraws == {0, JitterRange - 1}

\* Sum over the 7 layers of perlin.get([step * x, step * y]) * WEIGHTS[layer].
\* Perlin is an external noise function: deterministic in (seed, x, y), and 0
\* on lattice points, so 0 at pixel (0, 0).  Each seed selects one fixed field
\* of representative sums; the second field reaches a sum that lands on a
\* band limit.
NoiseFields ==
    << << 12000000, -30000000, 13500000, 45000000, -60000000, 60000000, 25000000 >>,
       << 13000000, -30000000, 12000000, -10000000, 45000000, 60000000, 13500000 >> >>

\* The seeds the model explores: one per field.
Seeds == 0..(Len(NoiseFields) - 1)

fractal_sample(seed, x, y) ==
    IF x = 0 /\ y = 0 THEN 0
    ELSE LET field == NoiseFields[(seed % Len(NoiseFields)) + 1]
         IN  field[((x + 2 * y - 1) % Len(field)) + 1]

clamp(value, lo, hi) == IF value < lo THEN lo ELSE IF value > hi THEN hi ELSE value

\* The jitter added whatever the strength.
jitter_term_unscaled(draw, noise_strength) == draw * (One \div JitterDivisor)

\* noise_value * noise_strength (line 94)
jitter_term(draw, noise_strength) ==
    MulDiv(draw * (One \div JitterDivisor), noise_strength, One)

\* Lines 77-97 of job for pixel (x, y) and jitter draw `draw`.
pixel_height(cfg, x, y, draw) ==
    LET value == fractal_sample(cfg.seed, x, y) + (One \div 2)
        mapped == cfg.base_height
                  + MulDiv(value, One - cfg.base_height, One)
                  + jitter_term(draw, cfg.noise_strength)
    IN  clamp(mapped, ClampMin, ClampMax)

(***************************************************************************)
(* generator.rs: Generator::generate, the partition of the buffer          *)
(***************************************************************************)
\* slice.chunks_mut(chunk_size) over a slice of `len` bytes: the number of
\* chunks and the byte range [chunk_lo, chunk_hi) of chunk n (from 0).
chunk_count(len, chunk_size) == (len + chunk_size - 1) \div chunk_size

\* Chunks that start one pixel early.
chunk_lo_overlap(len, chunk_size, n) == IF n = 0 THEN 0 ELSE n * chunk_size - 3

chunk_lo(len, chunk_size, n) == n * chunk_size

chunk_hi(len, chunk_size, n) == Min(n * chunk_size + chunk_size, len)

\* (width * height) as usize / thread_count (line 38), for thread_count > 0.
compute_area_size(width, height, thread_count) == (width * height) \div thread_count

\* The loop bound of job (line 74).
job_bound(slice_len, amount) == Min(slice_len \div 3, amount)

VARIABLES
    config,      \* the resolved Config: seed, width, height, thread_count, base_height, noise_strength
    image_data,  \* the caller's buffer, byte offset -> byte
    written,     \* byte offset -> the workers (chunk numbers) that have written it
    pc,          \* generate: "entry", "scope", "returned", "panicked"
    fault,       \* why generate panicked: "none", "divide_by_zero", "chunk_size_zero"
    area_size,   \* local of generate
    workers,     \* the spawned workers in spawn order: slice, start, amount, loop index, "running" or "panicked"
    history,     \* the earlier run of generate on this seed and image size, if any
    sample,      \* the gradient call under examination
    request,     \* what Config::new reads: the command line and the JSON config file
    cpus,        \* num_cpus::get() of the machine
    lock,        \* main.rs: the holder of the progress mutex, or "free"
    progress,    \* main.rs: the progress counter behind the mutex
    reporter     \* main.rs: the position of output_thread

\* What lies outside one call of Generator::generate.
env == <<request, cpus, lock, progress, reporter>>

vars == <<config, image_data, written, pc, fault, area_size, workers, history, sample, env>>

\* Bounds of the explored configurations.
MaxPixels == 5
MaxThreads == 3
RerunMaxPixels == 3
SampleSpan == 3

BaseHeights == {0, 60000000}
NoiseStrengths == {0, 25000000}

NoSample == [stage |-> "idle"]

\* generate is called on a resolved configuration: nothing is read from the
\* command line, and the progress reporter of main.rs does not run.
NoRequest == [source |-> "none"]

EnvIdle ==
    /\ request = NoRequest
    /\ cpus = 1
    /\ lock = "free"
    /\ progress = 0
    /\ reporter = "none"

Buffer(len) == [b \in 0..(len - 1) |-> 0]
Unwritten(len) == [b \in 0..(len - 1) |-> {}]

\* The caller allocates vec![0; width * height * 3] (examples/generate/main.rs:25).
Configs ==
    {c \in [seed : Seeds, width : 1..MaxPixels, height : 1..MaxPixels,
            thread_count : 0..MaxThreads,
            base_height : BaseHeights, noise_strength : NoiseStrengths] :
        c.width * c.height <= MaxPixels}

\* The state at the call of generate on configuration cfg.
AtCall(cfg) ==
    /\ config = cfg
    /\ image_data = Buffer(cfg.width * cfg.height * 3)
    /\ written = Unwritten(cfg.width * cfg.height * 3)
    /\ pc = "entry"
    /\ fault = "none"
    /\ area_size = 0
    /\ workers = <<>>

Init ==
    /\ \E cfg \in Configs : AtCall(cfg)
    /\ history = <<>>
    /\ sample = NoSample
    /\ EnvIdle

BufLen == Cardinality(DOMAIN image_data)

\* Lines 18-38: the division panics on thread_count = 0.
Entry ==
    /\ pc = "entry"
    /\ IF config.thread_count = 0
       THEN /\ pc' = "panicked"
            /\ fault' = "divide_by_zero"
            /\ UNCHANGED area_size
       ELSE /\ pc' = "scope"
            /\ area_size' = compute_area_size(config.width, config.height,
                                              config.thread_count)
            /\ UNCHANGED fault
    /\ UNCHANGED <<config, image_data, written, workers, history, sample, env>>

\* Line 41: chunks_mut panics on a chunk size of 0, inside the scope closure
\* and before the first spawn; crossbeam::scope resumes the closure's panic.
ChunksPanic ==
    /\ pc = "scope"
    /\ area_size * 3 = 0
    /\ pc' = "panicked"
    /\ fault' = "chunk_size_zero"
    /\ UNCHANGED <<config, image_data, written, area_size, workers, history, sample, env>>

\* Lines 41-55: one iteration of the spawn loop; the worker runs from here on.
Spawn ==
    /\ pc = "scope"
    /\ area_size * 3 > 0
    /\ Len(workers) < chunk_count(BufLen, area_size * 3)
    /\ LET area == Len(workers)
       IN  workers' = Append(workers,
                [lo     |-> chunk_lo(BufLen, area_size * 3, area),
                 hi     |-> chunk_hi(BufLen, area_size * 3, area),
                 start  |-> area * area_size,
                 amount |-> area_size,
                 idx    |-> 0,
                 st     |-> "running"])
    /\ UNCHANGED <<config, image_data, written, pc, fault, area_size, history, sample, env>>

\* One iteration of the loop of job (lines 74-103) in worker a: the pixel is
\* colored and stored, or lerp_color panics and the worker dies.
JobStep(a) ==
    LET w == workers[a]
        len == w.hi - w.lo
    IN  /\ w.st = "running"
        /\ w.idx < job_bound(len, w.amount)
        /\ \E draw \in JitterDraws :
             LET x == (w.start + w.idx) % config.width
                 y == (w.start + w.idx) \div config.width
                 res == lerp_color(pixel_height(config, x, y, draw))
             IN  IF res.ok /\ w.idx * 3 + 2 < len
                 THEN /\ image_data' = [b \in DOMAIN image_data |->
                            IF b \in (w.lo + w.idx * 3)..(w.lo + w.idx * 3 + 2)
                            THEN res.val[b - (w.lo + w.idx * 3) + 1]
                            ELSE image_data[b]]
                      /\ written' = [b \in DOMAIN written |->
                            IF b \in (w.lo + w.idx * 3)..(w.lo + w.idx * 3 + 2)
                            THEN written[b] \cup {a - 1}
                            ELSE written[b]]
                      /\ workers' = [workers EXCEPT ![a].idx = w.idx + 1]
                 ELSE /\ workers' = [workers EXCEPT ![a].st = "panicked"]
                      /\ UNCHANGED <<image_data, written>>
        /\ UNCHANGED <<config, pc, fault, area_size, history, sample, env>>

\* A worker is over when its loop is (job returns) or when it panicked.
Finished(w) == w.st = "panicked" \/ w.idx >= job_bound(w.hi - w.lo, w.amount)

AllSpawned == Len(workers) = chunk_count(BufLen, area_size * 3)

AnyWorkerPanicked == \E a \in DOMAIN workers : workers[a].st = "panicked"

\* Lines 40 and 57-58: the scope joins every worker and yields Err when one
\* of them panicked; `let _ =` drops that result and generate returns ().
ScopeJoin ==
    /\ pc = "scope"
    /\ area_size * 3 > 0
    /\ AllSpawned
    /\ \A a \in DOMAIN workers : Finished(workers[a])
    /\ pc' = "returned"
    /\ UNCHANGED <<config, image_data, written, fault, area_size, workers, history, sample, env>>

Next ==
    \/ Entry
    \/ ChunksPanic
    \/ Spawn
    \/ \E a \in DOMAIN workers : JobStep(a)
    \/ ScopeJoin

Spec == Init /\ [][Next]_vars

(***************************************************************************)
(* Two calls of generate in a row on the same seed, image size, base        *)
(* height and noise strength 0, each on a fresh buffer, as a caller          *)
(* comparing outputs makes them.                                            *)
(***************************************************************************)
RerunConfigs ==
    {c \in Configs : c.width * c.height <= RerunMaxPixels /\ c.noise_strength = 0}

InitRerun ==
    /\ \E cfg \in RerunConfigs : AtCall(cfg)
    /\ history = <<>>
    /\ sample = NoSample
    /\ EnvIdle

Rerun ==
    /\ pc = "returned"
    /\ history = <<>>
    /\ history' = <<[thread_count |-> config.thread_count, image |-> image_data]>>
    /\ \E t \in 0..MaxThreads :
         /\ config' = [config EXCEPT !.thread_count = t]
         /\ image_data' = Buffer(config.width * config.height * 3)
         /\ written' = Unwritten(config.width * config.height * 3)
         /\ pc' = "entry"
         /\ fault' = "none"
         /\ area_size' = 0
         /\ workers' = <<>>
    /\ UNCHANGED <<sample, env>>

NextRerun ==
    \/ Entry
    \/ ChunksPanic
    \/ Spawn
    \/ \E a \in DOMAIN workers : JobStep(a)
    \/ ScopeJoin
    \/ Rerun

SpecRerun == InitRerun /\ [][NextRerun]_vars

(***************************************************************************)
(* The gradient on its own: one call of get_terrain_kind or lerp_color on   *)
(* a height clamped as job clamps it, or of before and after on a kind.     *)
(***************************************************************************)
\* Band limits and band centers, the heights around which the samples lie.
Landmarks ==
    {terrain_limits[i][j] : i \in 1..Len(terrain_limits), j \in 1..2}
        \cup {terrain_centers[i] : i \in 1..Len(terrain_limits)}

\* Heights in steps of 0.001 around every landmark, within [0, 1].
HeightSamples ==
    {h \in {l + k * (One \div 1000) : l \in Landmarks, k \in (0 - SampleSpan)..SampleSpan} :
        0 <= h /\ h <= One}

IdleConfig ==
    [seed |-> 0, width |-> 1, height |-> 1, thread_count |-> 1,
     base_height |-> 0, noise_strength |-> 0]

\* The small fixed steps taken across a band boundary: the least
\* representable one, and multiples of 0.001.
BoundarySteps == {1} \cup {k * (One \div 1000) : k \in 1..SampleSpan}

\* The bands with a band above them, each named for the boundary it shares
\* with that band.
LowerBands == {k \in Kinds : k # MountainTop}

InitGradient ==
    /\ sample \in {[stage |-> "raw", height |-> h] : h \in HeightSamples}
                  \cup {[stage |-> "kind", kind |-> k] : k \in AllKinds}
                  \cup {[stage |-> "boundary", kind |-> k, step |-> d] :
                            k \in LowerBands, d \in BoundarySteps}
    /\ config = IdleConfig
    /\ image_data = Buffer(0)
    /\ written = Unwritten(0)
    /\ pc = "idle"
    /\ fault = "none"
    /\ area_size = 0
    /\ workers = <<>>
    /\ history = <<>>
    /\ EnvIdle

GenUnchanged ==
    UNCHANGED <<config, image_data, written, pc, fault, area_size, workers, history, env>>

\* generator.rs line 97
ClampSample ==
    /\ sample.stage = "raw"
    /\ sample' = [stage |-> "clamped",
                  height |-> clamp(sample.height, ClampMin, ClampMax)]
    /\ GenUnchanged

Classify ==
    /\ sample.stage = "clamped"
    /\ sample' = [stage |-> "classified", height |-> sample.height,
                  result |-> get_terrain_kind(sample.height)]
    /\ GenUnchanged

Lerp ==
    /\ sample.stage = "clamped"
    /\ sample' = [stage |-> "colored", height |-> sample.height,
                  result |-> lerp_color(sample.height)]
    /\ GenUnchanged

Neighbours ==
    /\ sample.stage = "kind"
    /\ sample' = [stage |-> "neighbours", kind |-> sample.kind,
                  before |-> before(sample.kind), after |-> after(sample.kind)]
    /\ GenUnchanged

\* lerp_color one step below and one step above the upper limit of a band.
CrossBoundary ==
    /\ sample.stage = "boundary"
    /\ LET limit == terrain_limits[sample.kind + 1][2]
       IN  sample' = [stage |-> "crossed", kind |-> sample.kind, step |-> sample.step,
                      below |-> lerp_color(limit - sample.step),
                      above |-> lerp_color(limit + sample.step)]
    /\ GenUnchanged

NextGradient ==
    \/ CrossBoundary
    \/ ClampSample
    \/ Classify
    \/ Lerp
    \/ Neighbours

SpecGradient == InitGradient /\ [][NextGradient]_vars

(***************************************************************************)
(* config.rs: Config::new, then the call of generate on the resolved        *)
(* configuration.  An Option is a set with at most one element.             *)
(***************************************************************************)
DEFAULT_WIDTH == 1920
DEFAULT_HEIGHT == 1080
DEFAULT_NOISE_STRENGTH == 25000000
DEFAULT_HEIGHT_OFFSET == 0

\* The greatest thread count thread_count_in_range accepts.
ThreadCountMax == 256

\* Bounds of the explored machines and requests.
MaxCpus == 3
RequestMaxWidth == 2

\* Option::or
OptionOr(a, b) == IF a # {} THEN a ELSE b

\* The value parsers of the command line (config.rs lines 36-52, 60-88).
width_in_range(v) == v >= 1
noise_strength_in_range(v) == v >= 0
base_height_in_range(v) == v >= 0 /\ v <= One
thread_count_in_range(v) == v >= 1 /\ v <= ThreadCountMax

\* clap accepts the arguments that are given.
ArgsAccepted(args) ==
    /\ \A v \in args.width : width_in_range(v)
    /\ \A v \in args.height : width_in_range(v)
    /\ \A v \in args.noise_strength : noise_strength_in_range(v)
    /\ \A v \in args.base_height : base_height_in_range(v)
    /\ \A v \in args.thread_count : thread_count_in_range(v)

\* self.merge_with_defaults(other) on a machine of ncpus logical CPUs.
merge_with_defaults(self, other, ncpus) ==
    [width          |-> OptionOr(self.width, OptionOr(other.width, {DEFAULT_WIDTH})),
     height         |-> OptionOr(self.height, OptionOr(other.height, {DEFAULT_HEIGHT})),
     noise_strength |-> OptionOr(self.noise_strength,
                            OptionOr(other.noise_strength, {DEFAULT_NOISE_STRENGTH})),
     base_height    |-> OptionOr(self.base_height,
                            OptionOr(other.base_height, {DEFAULT_HEIGHT_OFFSET})),
     thread_count   |-> OptionOr(self.thread_count,
                            OptionOr(other.thread_count, {ncpus - 1}))]

\* Config::new once the arguments are parsed: merged with the config file
\* when one is given, with itself otherwise.
ResolvedOptions(req, ncpus) ==
    IF req.json # {}
    THEN merge_with_defaults(req.args, CHOOSE j \in req.json : TRUE, ncpus)
    ELSE merge_with_defaults(req.args, req.args, ncpus)

\* option.unwrap()
Unwrap(opt) == CHOOSE v \in opt : TRUE

\* The values a request gives: valid ones, and one invalid one per parameter.
GivenOptions ==
    [width          : {{v} : v \in 0..RequestMaxWidth},
     height         : {{0}, {1}},
     noise_strength : {{}, {0 - 25000000}},
     base_height    : {{}, {60000000}, {150000000}},
     thread_count   : {{}, {0}, {2}}]

NoOptions ==
    [width |-> {}, height |-> {}, noise_strength |-> {}, base_height |-> {},
     thread_count |-> {}]

\* Everything on the command line, or everything in the config file.
Requests ==
    {[source |-> "cli", args |-> g, json |-> {}] : g \in GivenOptions}
        \cup {[source |-> "json", args |-> NoOptions, json |-> {g}] : g \in GivenOptions}

InitConfig ==
    /\ request \in Requests
    /\ cpus \in 1..MaxCpus
    /\ config = IdleConfig
    /\ image_data = Buffer(0)
    /\ written = Unwritten(0)
    /\ pc = "config"
    /\ fault = "none"
    /\ area_size = 0
    /\ workers = <<>>
    /\ history = <<>>
    /\ sample = NoSample
    /\ lock = "free"
    /\ progress = 0
    /\ reporter = "none"

\* Config::new (config.rs lines 92-118): clap ends the process with an error
\* on an argument its value parser refuses; the config file is taken as it is.
ConfigNew ==
    /\ pc = "config"
    /\ IF ArgsAccepted(request.args)
       THEN LET o == ResolvedOptions(request, cpus)
            IN  /\ config' = [seed |-> 0,
                              width |-> Unwrap(o.width),
                              height |-> Unwrap(o.height),
                              thread_count |-> Unwrap(o.thread_count),
                              base_height |-> Unwrap(o.base_height),
                              noise_strength |-> Unwrap(o.noise_strength)]
                /\ pc' = "allocate"
       ELSE /\ pc' = "rejected"
            /\ UNCHANGED config
    /\ UNCHANGED <<image_data, written, fault, area_size, workers, history, sample, env>>

\* The caller allocates the buffer and calls generate: width * height * 3
\* bytes as examples/generate/main.rs:25 does, or one pixel more.
Allocate ==
    /\ pc = "allocate"
    /\ \E len \in {config.width * config.height * 3, config.width * config.height * 3 + 3} :
         /\ image_data' = Buffer(len)
         /\ written' = Unwritten(len)
    /\ pc' = "entry"
    /\ UNCHANGED <<config, fault, area_size, workers, history, sample, env>>

NextConfig ==
    \/ ConfigNew
    \/ Allocate
    \/ Entry
    \/ ChunksPanic
    \/ Spawn
    \/ \E a \in DOMAIN workers : JobStep(a)
    \/ ScopeJoin

SpecConfig == InitConfig /\ [][NextConfig]_vars


(***************************************************************************)
(* main.rs: the progress-reporting generator.  main spawns the reporter     *)
(* thread, fans the chunks out to workers that add to the shared progress   *)
(* counter under its mutex, stores 100 and joins the reporter.              *)
(***************************************************************************)
\* gen_range(0..100) as f64 / 10000.0 (main.rs line 295)
MainJitterRange == 100
MainJitterDivisor == 10000

MainJitterDraws == {0, MainJitterRange - 1}

\* The progress counter is kept in units of 1/PercentUnit percent, so that
\* progress_step = 100.0 / (width * height) is exact for every pixel count
\* explored: in f64, width * height additions of the step give a sum
\* >= 100.0 for every pixel count up to 11.
PercentUnit == 27720
Hundred == 100 * PercentUnit

\* main.rs line 194
progress_step(width, height) == Hundred \div (width * height)

\* Lines 276-304 of job in main.rs for pixel (x, y) and jitter draw `draw`.
main_pixel_height(cfg, x, y, draw) ==
    LET value == fractal_sample(cfg.seed, x, y) + (One \div 2)
        mapped == cfg.base_height
                  + MulDiv(value, One - cfg.base_height, One)
                  + MulDiv(draw * (One \div MainJitterDivisor), cfg.noise_strength, One)
    IN  clamp(mapped, ClampMin, ClampMax)

\* Bound of the images of the progress-reporting runs.
ProgressMaxPixels == 3

\* main.rs has no thread_count: it divides by num_cpus::get() - 1.
ProgressConfigs ==
    {c \in [seed : {0}, width : 1..ProgressMaxPixels, height : 1..ProgressMaxPixels,
            thread_count : {1}, base_height : BaseHeights,
            noise_strength : NoiseStrengths] :
        c.width * c.height <= ProgressMaxPixels}

InitProgress ==
    /\ config \in ProgressConfigs
    /\ cpus \in 1..MaxCpus
    /\ image_data = Buffer(0)
    /\ written = Unwritten(0)
    /\ pc = "main"
    /\ fault = "none"
    /\ area_size = 0
    /\ workers = <<>>
    /\ history = <<>>
    /\ sample = NoSample
    /\ request = NoRequest
    /\ lock = "free"
    /\ progress = 0
    /\ reporter = "none"

\* Lines 194-216: the counter, the buffer, the chunk size (a division by
\* num_cpus::get() - 1, which panics on one CPU) and the spawn of the
\* reporter thread.
MainSetup ==
    /\ pc = "main"
    /\ IF cpus - 1 = 0
       THEN /\ pc' = "panicked"
            /\ fault' = "divide_by_zero"
            /\ UNCHANGED <<image_data, written, area_size, reporter>>
       ELSE /\ image_data' = Buffer(config.width * config.height * 3)
            /\ written' = Unwritten(config.width * config.height * 3)
            /\ area_size' = compute_area_size(config.width, config.height, cpus - 1)
            /\ reporter' = "try"
            /\ pc' = "scope"
            /\ UNCHANGED fault
    /\ UNCHANGED <<config, workers, history, sample, request, cpus, lock, progress>>

\* Line 219: chunks_mut panics on a chunk size of 0; the panic of the scope
\* closure is resumed in main and the process ends.
MainChunksPanic ==
    /\ pc = "scope"
    /\ area_size * 3 = 0
    /\ pc' = "panicked"
    /\ fault' = "chunk_size_zero"
    /\ UNCHANGED <<config, image_data, written, area_size, workers, history, sample, env>>

\* Lines 219-237: one iteration of the spawn loop.
MainSpawn ==
    /\ pc = "scope"
    /\ area_size * 3 > 0
    /\ Len(workers) < chunk_count(BufLen, area_size * 3)
    /\ LET area == Len(workers)
       IN  workers' = Append(workers,
                [lo     |-> chunk_lo(BufLen, area_size * 3, area),
                 hi     |-> chunk_hi(BufLen, area_size * 3, area),
                 start  |-> area * area_size,
                 amount |-> area_size,
                 idx    |-> 0,
                 st     |-> "running"])
    /\ UNCHANGED <<config, image_data, written, pc, fault, area_size, history, sample, env>>

\* Lines 273-310 of job in worker a: the pixel is colored and stored and the
\* worker calls progress.lock(), or lerp_color panics and the worker dies
\* (the mutex is not held, so it is not poisoned).
WorkerPixel(a) ==
    /\ a \in DOMAIN workers
    /\ LET w == workers[a]
           len == w.hi - w.lo
       IN  /\ w.st = "running"
           /\ w.idx < job_bound(len, w.amount)
           /\ \E draw \in MainJitterDraws :
                LET x == (w.start + w.idx) % config.width
                    y == (w.start + w.idx) \div config.width
                    res == lerp_color(main_pixel_height(config, x, y, draw))
                IN  IF res.ok
                    THEN /\ image_data' = [b \in DOMAIN image_data |->
                               IF b \in (w.lo + w.idx * 3)..(w.lo + w.idx * 3 + 2)
                               THEN res.val[b - (w.lo + w.idx * 3) + 1]
                               ELSE image_data[b]]
                         /\ written' = [b \in DOMAIN written |->
                               IF b \in (w.lo + w.idx * 3)..(w.lo + w.idx * 3 + 2)
                               THEN written[b] \cup {a - 1}
                               ELSE written[b]]
                         /\ workers' = [workers EXCEPT ![a].st = "waiting"]
                    ELSE /\ workers' = [workers EXCEPT ![a].st = "panicked"]
                         /\ UNCHANGED <<image_data, written>>
    /\ UNCHANGED <<config, pc, fault, area_size, history, sample, env>>

\* Line 310: progress.lock() returns in worker a once the mutex is free.
WorkerLock(a) ==
    /\ a \in DOMAIN workers
    /\ workers[a].st = "waiting"
    /\ lock = "free"
    /\ lock' = "worker"
    /\ workers' = [workers EXCEPT ![a].st = "locked"]
    /\ UNCHANGED <<config, image_data, written, pc, fault, area_size, history, sample,
                   request, cpus, progress, reporter>>

\* Lines 311-315: the step is added, the guard is dropped and the loop goes on.
WorkerAdd(a) ==
    /\ a \in DOMAIN workers
    /\ workers[a].st = "locked"
    /\ progress' = progress + progress_step(config.width, config.height)
    /\ lock' = "free"
    /\ workers' = [workers EXCEPT ![a].st = "running", ![a].idx = workers[a].idx + 1]
    /\ UNCHANGED <<config, image_data, written, pc, fault, area_size, history, sample,
                   request, cpus, reporter>>

\* Lines 218 and 238: the scope joins every worker; its result is dropped.
MainScopeJoin ==
    /\ pc = "scope"
    /\ area_size * 3 > 0
    /\ AllSpawned
    /\ \A a \in DOMAIN workers : Finished(workers[a])
    /\ pc' = "store"
    /\ UNCHANGED <<config, image_data, written, fault, area_size, workers, history, sample, env>>

\* Line 240: progress.lock() returns in main once the mutex is free.
MainLock ==
    /\ pc = "store"
    /\ lock = "free"
    /\ lock' = "main"
    /\ pc' = "stored"
    /\ UNCHANGED <<config, image_data, written, fault, area_size, workers, history, sample,
                   request, cpus, progress, reporter>>

\* Line 240: 100.0 is stored and the guard is dropped.
MainStore ==
    /\ pc = "stored"
    /\ progress' = Hundred
    /\ lock' = "free"
    /\ pc' = "join"
    /\ UNCHANGED <<config, image_data, written, fault, area_size, workers, history, sample,
                   request, cpus, reporter>>

\* Line 241: output_thread.join() returns when the reporter thread is over.
MainJoin ==
    /\ pc = "join"
    /\ reporter = "exited"
    /\ pc' = "done"
    /\ UNCHANGED <<config, image_data, written, fault, area_size, workers, history, sample, env>>

\* Line 205: try_lock takes the mutex when it is free and gives WouldBlock
\* otherwise.  The threads end with the process when main panicked.
ReporterTryLock ==
    /\ reporter = "try"
    /\ pc # "panicked"
    /\ IF lock = "free"
       THEN /\ lock' = "reporter"
            /\ reporter' = "holding"
       ELSE /\ reporter' = "sleep"
            /\ UNCHANGED lock
    /\ UNCHANGED <<config, image_data, written, pc, fault, area_size, workers, history,
                   sample, request, cpus, progress>>

\* Lines 206-211: the value is printed under the guard; the loop is left
\* when it is >= 100.0, and the guard is dropped either way.
ReporterPrint ==
    /\ reporter = "holding"
    /\ pc # "panicked"
    /\ reporter' = IF progress >= Hundred THEN "exited" ELSE "sleep"
    /\ lock' = "free"
    /\ UNCHANGED <<config, image_data, written, pc, fault, area_size, workers, history,
                   sample, request, cpus, progress>>

\* Line 215: sleep(100ns), then the next iteration.
ReporterSleep ==
    /\ reporter = "sleep"
    /\ pc # "panicked"
    /\ reporter' = "try"
    /\ UNCHANGED <<config, image_data, written, pc, fault, area_size, workers, history,
                   sample, request, cpus, lock, progress>>

MainStep ==
    \/ MainSetup
    \/ MainChunksPanic
    \/ MainSpawn
    \/ MainScopeJoin
    \/ MainLock
    \/ MainStore
    \/ MainJoin

ReporterStep ==
    \/ ReporterTryLock
    \/ ReporterPrint
    \/ ReporterSleep

WorkerStep(a) ==
    \/ WorkerPixel(a)
    \/ WorkerLock(a)
    \/ WorkerAdd(a)

NextProgress ==
    \/ MainStep
    \/ ReporterStep
    \/ \E a \in 1..ProgressMaxPixels : WorkerStep(a)

SpecProgress == InitProgress /\ [][NextProgress]_vars

\* Worker a can color its next pixel.
WorkerPixelEnabled(a) ==
    /\ a \in DOMAIN workers
    /\ workers[a].st = "running"
    /\ workers[a].idx < job_bound(workers[a].hi - workers[a].lo, workers[a].amount)

\* Fair scheduling: every thread that can take a step eventually takes one
\* (for the pixel step, weak fairness is spelled out on its guard), and a
\* thread blocked in lock() gets the mutex if it is free again and again
\* (the reporter sleeps outside the guard in every iteration).
FairProgress ==
    /\ WF_vars(MainStep)
    /\ SF_vars(MainLock)
    /\ WF_vars(ReporterStep)
    /\ \A a \in 1..ProgressMaxPixels :
         /\ []<>(~WorkerPixelEnabled(a)) \/ []<><<WorkerPixel(a)>>_vars
         /\ SF_vars(WorkerLock(a))
         /\ WF_vars(WorkerAdd(a))

SpecProgressFair == SpecProgress /\ FairProgress

(***************************************************************************)
(* generator.rs line 38 on the full range of u32: (width * height) as usize *)
(* / thread_count.  A u32 is a sequence of 4 digits of base Radix, least    *)
(* significant first; a usize and the mathematical product have 8.          *)
(***************************************************************************)
Radix == 256
U32Digits == 4
UsizeDigits == 8

\* Sum over i of a[i] * b[k + 1 - i]: column k of the schoolbook product.
RECURSIVE column_sum(_, _, _, _)
column_sum(a, b, k, i) ==
    IF i > Len(a) THEN 0
    ELSE (IF k + 1 - i >= 1 /\ k + 1 - i <= Len(b) THEN a[i] * b[k + 1 - i] ELSE 0)
         + column_sum(a, b, k, i + 1)

\* The digits of the number whose columns are cols, from column k on.
RECURSIVE carry_digits(_, _, _)
carry_digits(cols, k, carry) ==
    IF k > Len(cols) THEN <<>>
    ELSE <<(cols[k] + carry) % Radix>>
             \o carry_digits(cols, k + 1, (cols[k] + carry) \div Radix)

\* The mathematical product of two u32, on 8 digits.
wide_mul(a, b) ==
    carry_digits([k \in 1..UsizeDigits |-> column_sum(a, b, k, 1)], 1, 0)

\* Digits k down to 1 of x \div d, given the remainder of the digits above.
RECURSIVE div_digits(_, _, _, _)
div_digits(x, d, k, rem) ==
    IF k = 0 THEN <<>>
    ELSE div_digits(x, d, k - 1, (rem * Radix + x[k]) % d)
             \o <<(rem * Radix + x[k]) \div d>>

\* x \div d for a divisor d > 0 below Radix.
wide_div(x, d) == div_digits(x, d, Len(x), 0)

\* as usize: zero extension.
as_usize(x) == [k \in 1..UsizeDigits |-> IF k <= Len(x) THEN x[k] ELSE 0]

\* u32 multiplication overflows when the product does not fit 4 digits.
mul_overflows(a, b) == \E k \in (U32Digits + 1)..UsizeDigits : wide_mul(a, b)[k] # 0

\* a * b on u32 in a build without overflow checks.
wrapping_mul(a, b) == SubSeq(wide_mul(a, b), 1, U32Digits)

\* Line 38 for thread_count > 0: with overflow checks (debug build) an
\* overflowing multiplication panics; without them (release build) it wraps.
area_size_u32(width, height, thread_count, build) ==
    IF build = "debug" /\ mul_overflows(width, height)
    THEN Panic
    ELSE Ok(wide_div(as_usize(wrapping_mul(width, height)), thread_count))

\* The u32 of value hi * 2^16 + lo.
U32(hi, lo) == <<lo % Radix, lo \div Radix, hi % Radix, hi \div Radix>>

\* The dimensions explored: small ones, and those around 2^16, 2^31 and 2^32.
WideDims ==
    {U32(0, 1), U32(0, 3), U32(0, 1080), U32(0, 1920), U32(0, 65535), U32(1, 0),
     U32(1, 1), U32(32768, 0), U32(65535, 65535)}

Builds == {"debug", "release"}

InitArea ==
    /\ sample \in {[stage |-> "dims", width |-> w, height |-> h, thread_count |-> t,
                    build |-> b] :
                      w \in WideDims, h \in WideDims, t \in 1..MaxThreads, b \in Builds}
    /\ config = IdleConfig
    /\ image_data = Buffer(0)
    /\ written = Unwritten(0)
    /\ pc = "idle"
    /\ fault = "none"
    /\ area_size = 0
    /\ workers = <<>>
    /\ history = <<>>
    /\ EnvIdle

\* generator.rs line 38
AreaSize ==
    /\ sample.stage = "dims"
    /\ sample' = [stage |-> "area", width |-> sample.width, height |-> sample.height,
                  thread_count |-> sample.thread_count, build |-> sample.build,
                  result |-> area_size_u32(sample.width, sample.height,
                                           sample.thread_count, sample.build)]
    /\ GenUnchanged

NextArea == AreaSize

SpecArea == InitArea /\ [][NextArea]_vars

(***************************************************************************)
(* Properties                                                              *)
(***************************************************************************)
PixelCount == config.width * config.height

\* The bytes of the buffer handed to worker a.
SliceOf(a) == workers[a].lo..(workers[a].hi - 1)

\* C1: with thread_count >= 1 and a buffer of width*height*3 bytes, the
\* slices handed to the workers are pairwise disjoint and every byte was
\* written by no worker but the one whose slice holds it, in every
\* interleaving of the workers.
C1_DisjointWrites ==
    (config.thread_count >= 1 /\ BufLen = PixelCount * 3) =>
        /\ \A a, b \in DOMAIN workers : a # b => SliceOf(a) \cap SliceOf(b) = {}
        /\ \A byte \in DOMAIN written :
             /\ Cardinality(written[byte]) <= 1
             /\ \A n \in written[byte] : byte \in SliceOf(n + 1)

\* Two workers are both in the middle of their chunks, each with a pixel stored.
C1_Witness ==
    \E a, b \in DOMAIN workers :
        /\ a # b
        /\ workers[a].idx >= 1 /\ ~Finished(workers[a])
        /\ workers[b].idx >= 1 /\ ~Finished(workers[b])

\* C2: once generate has returned normally, every byte of the buffer has
\* been written at least once.
C2_BufferComplete ==
    (pc = "returned" /\ BufLen = PixelCount * 3) =>
        \A byte \in DOMAIN written : written[byte] # {}

\* C5: generate does not return normally when a worker panicked.
C5_WorkerFailureSurfaced ==
    pc = "returned" => ~AnyWorkerPanicked

\* C9: for 1 <= thread_count <= width*height, generate has spawned exactly
\* thread_count workers when it returns: all but the last on
\* floor(width*height/thread_count) pixels, the last on what remains.
C9_ExactlyThreadCountWorkers ==
    (pc = "returned" /\ config.thread_count \in 1..PixelCount) =>
        /\ Len(workers) = config.thread_count
        /\ \A a \in DOMAIN workers :
             /\ workers[a].lo = (a - 1) * (PixelCount \div config.thread_count) * 3
             /\ workers[a].hi = IF a = Len(workers) THEN BufLen
                                ELSE a * (PixelCount \div config.thread_count) * 3

\* C10: with thread_count > width*height, generate does not fail inside the
\* fan-out: the call never ends in the panic of chunks_mut.
C10_NoFailureInFanOut ==
    config.thread_count > PixelCount => ~(pc = "panicked" /\ fault = "chunk_size_zero")

\* The color job stores for the pixel at global index g with noise strength 0.
ExpectedColor(g) ==
    lerp_color(pixel_height(config, g % config.width, g \div config.width, 0))

\* C3: with noise_strength = 0, every stored pixel g is computed from
\* (g mod width, g div width), and the output of a run with thread_count = 1
\* and of a run with any thread_count in 1..width*height are byte-identical.
C3_ThreadCountInvariance ==
    (pc = "returned" /\ config.noise_strength = 0 /\ config.thread_count \in 1..PixelCount) =>
        /\ \A byte \in DOMAIN written : written[byte] # {} =>
              /\ ExpectedColor(byte \div 3).ok
              /\ image_data[byte] = ExpectedColor(byte \div 3).val[(byte % 3) + 1]
        /\ \A i \in DOMAIN history :
              history[i].thread_count = 1 => history[i].image = image_data

\* C4: with noise_strength = 0, two runs of generate on the same seed,
\* width, height, base height and thread_count end with byte-identical
\* buffers, whatever the jitter draws and the schedule of the workers.
C4_Deterministic ==
    (pc = "returned" /\ config.noise_strength = 0) =>
        \A i \in DOMAIN history :
            history[i].thread_count = config.thread_count =>
                history[i].image = image_data

\* The second of two runs with the same thread_count has returned, after
\* several workers stored pixels.
C4_Witness ==
    /\ pc = "returned"
    /\ config.noise_strength = 0
    /\ history # <<>>
    /\ history[1].thread_count = config.thread_count
    /\ Len(workers) >= 2
    /\ \E a, b \in DOMAIN workers : a # b /\ workers[a].idx >= 1 /\ workers[b].idx >= 1

\* C6: get_terrain_kind on a height of the clamped range [1e-7, 1 - 1e-7]
\* does not fail and yields one of the 8 defined kinds.
C6_ClampedHeightHasBand ==
    (sample.stage = "classified" /\ sample.height \in ClampMin..(One - ClampMin)) =>
        /\ sample.result.ok
        /\ sample.result.val \in Kinds

\* C7: lerp_color at the exact center of each of the 8 bands is that band's color.
C7_CenterIsBandColor ==
    sample.stage = "colored" =>
        \A k \in Kinds :
            sample.height = terrain_centers[k + 1] => sample.result = Ok(colors[k + 1])

\* C8: before(k) is the kind just below k and after(k) the kind just above,
\* saturating at DeepWater and MountainTop.
C8_NeighboursAdjacent ==
    (sample.stage = "neighbours" /\ sample.kind \in Kinds) =>
        /\ sample.before = (IF sample.kind = DeepWater THEN DeepWater ELSE sample.kind - 1)
        /\ sample.after = (IF sample.kind = MountainTop THEN MountainTop ELSE sample.kind + 1)
        /\ sample.kind # DeepWater => after(sample.before) = sample.kind
        /\ sample.kind # MountainTop => before(sample.after) = sample.kind

\* generate was called with an invalid parameter or a buffer of the wrong length.
InvalidCall ==
    /\ pc \in {"entry", "scope", "returned", "panicked"}
    /\ \/ config.width = 0
       \/ config.height = 0
       \/ config.thread_count = 0
       \/ config.base_height < 0 \/ config.base_height > One
       \/ config.noise_strength < 0
       \/ BufLen # config.width * config.height * 3

\* C11: a call with an invalid parameter, from the command line or the
\* config file, starts no worker, stores nothing and does not return normally.
C11_InvalidRejected ==
    InvalidCall =>
        /\ workers = <<>>
        /\ \A byte \in DOMAIN written : written[byte] = {}
        /\ pc # "returned"

\* No thread count on the command line or in the config file.
NoThreadCountGiven ==
    /\ request.source # "none"
    /\ request.args.thread_count = {}
    /\ \A j \in request.json : j.thread_count = {}

\* C12: with no thread count configured, the resolved thread_count is the
\* CPU count minus one and at least 1, and the division of generate does
\* not divide by zero.
C12_DefaultThreadCountAtLeastOne ==
    (NoThreadCountGiven /\ pc \notin {"config", "rejected"}) =>
        /\ config.thread_count = (IF cpus - 1 >= 1 THEN cpus - 1 ELSE 1)
        /\ fault # "divide_by_zero"

\* The blend of band k and the band above it at height h, on channel c:
\* the interpolation of the two bands' colors between their centers.
AdjacentMix(k, h, c) ==
    colors[k + 1][c]
        + MulDiv(colors[k + 2][c] - colors[k + 1][c], h - terrain_centers[k + 1],
                 terrain_centers[k + 2] - terrain_centers[k + 1])

\* The change of channel c of that blend over two steps of size d.
MixDelta(k, d, c) ==
    MulDiv(Abs(colors[k + 2][c] - colors[k + 1][c]), 2 * d,
           terrain_centers[k + 2] - terrain_centers[k + 1])

\* C13: one step below and one step above each of the 7 internal boundaries,
\* lerp_color gives the same mix of the two adjacent bands' colors (up to the
\* truncation of the cast), so each channel changes by no more than the
\* change of that mix over the two steps.
C13_ContinuousAcrossBoundaries ==
    sample.stage = "crossed" =>
        /\ sample.below.ok
        /\ sample.above.ok
        /\ LET k     == sample.kind
               limit == terrain_limits[k + 1][2]
           IN  \A c \in 1..3 :
                 /\ Abs(sample.below.val[c] - AdjacentMix(k, limit - sample.step, c)) <= 1
                 /\ Abs(sample.above.val[c] - AdjacentMix(k, limit + sample.step, c)) <= 1
                 /\ Abs(sample.above.val[c] - sample.below.val[c])
                        <= MixDelta(k, sample.step, c) + 2

\* A worker is blocked in progress.lock().
WorkerWaiting == \E a \in DOMAIN workers : workers[a].st = "waiting"

\* C14: in no reachable state is a worker waiting to acquire the progress
\* lock while the reporter thread holds it.
C14_ReporterNeverBlocksWorker == ~(WorkerWaiting /\ lock = "reporter")

\* Worker w stored every pixel of its chunk.
ChunkCompleted(w) == w.st = "running" /\ w.idx * 3 >= w.hi - w.lo

\* C16: the run of the progress-reporting generator finishes as described:
\* main and the workers never abort, a state from which no thread can step
\* is the end of main, at the end of main every worker has completed its
\* chunk, the counter is 100 and the reporter is over; and the reporter is
\* over only when the counter has reached 100.
C16_RunFinishes ==
    /\ pc # "panicked"
    /\ \A a \in DOMAIN workers : workers[a].st # "panicked"
    /\ pc = "done" \/ ENABLED NextProgress
    /\ pc = "done" =>
          /\ \A a \in DOMAIN workers : ChunkCompleted(workers[a])
          /\ progress = Hundred
          /\ reporter = "exited"
    /\ reporter = "exited" => progress >= Hundred

\* C15: for every u32 width and height and every thread_count >= 1 the chunk
\* size is floor(width * height / thread_count) with the mathematical
\* product: the multiplication neither aborts the call nor wraps.
C15_AreaSizeExact ==
    sample.stage = "area" =>
        /\ sample.result.ok
        /\ sample.result.val
              = wide_div(wide_mul(sample.width, sample.height), sample.thread_count)
====
